---- MODULE Spec2Model ----
(***************************************************************************)
(* LINE / Dialogflow relay bot: the webhook handler, the per-event        *)
(* pipeline (indicator -> NLU resolution -> reply) and the pure helpers   *)
(* of src/server.js, together with the status-message revision            *)
(* src/unnamed/part_000.                                                   *)
(*                                                                         *)
(* A JavaScript string is a sequence of pieces.  A piece is one UTF-16    *)
(* code unit ("a", " ", "u0E2A" for U+0E2A) or, inside the canned replies *)
(* only, one literal chunk of the source text named by its place          *)
(* ("L346").  Every piece stands for at least one code unit, so a string  *)
(* is empty exactly when its sequence is.                                  *)
(*                                                                         *)
(* Time is counted in milliseconds.  The network latency of the LINE      *)
(* calls is taken as 0; the NLU round trip takes a chosen time.           *)
(***************************************************************************)
EXTENDS Integers, Sequences, FiniteSets, TLC

VARIABLES
  phase,            \* "start" | "listening" (no delivery yet) |
                    \* "handling" | "responded" (of the one delivery)
  revision,         \* which revision is deployed: "server" | "status"
  sessionClient,    \* server.js:20   "null" | "client"
  dialogflowReady,  \* server.js:21
  events,           \* req.body.events of the delivery being handled
  pc,               \* per event: the await the handler is suspended at
  botResponse,      \* per event: the resolved reply text (<<>> before)
  log,              \* per event: the external calls and sleeps, in order
  result,           \* per event: what the handleEvent promise settled to
  response          \* what POST /webhook answered

vars == <<phase, revision, sessionClient, dialogflowReady, events, pc,
          botResponse, log, result, response>>

-----------------------------------------------------------------------------
(* Bounds of the model *)

\* events per delivery
MaxEvents == 1
\* the NLU round trip takes 0 .. MaxNluSeconds seconds
MaxNluSeconds == 1
\* the longest text the pure helpers are applied to, in code units
MaxTextLen == 101
\* events per delivery when the events of a batch are followed together
MaxBatch == 2

-----------------------------------------------------------------------------
(* Strings *)

Max(a, b) == IF a >= b THEN a ELSE b

Upper == <<"A", "B", "C", "D", "E", "F", "G", "H", "I", "J", "K", "L", "M",
           "N", "O", "P", "Q", "R", "S", "T", "U", "V", "W", "X", "Y", "Z">>
Lower == <<"a", "b", "c", "d", "e", "f", "g", "h", "i", "j", "k", "l", "m",
           "n", "o", "p", "q", "r", "s", "t", "u", "v", "w", "x", "y", "z">>

\* the lower-case letter of each upper-case letter
LowerOf == [c \in {Upper[k] : k \in 1..26} |->
             Lower[CHOOSE k \in 1..26 : Upper[k] = c]]

LowerChar(c) == IF c \in DOMAIN LowerOf THEN LowerOf[c] ELSE c

\* String.prototype.toLowerCase
ToLowerCase(s) == [k \in 1..Len(s) |-> LowerChar(s[k])]

WhiteSpace == {" ", "\t", "\n"}

\* String.prototype.trim
Trim(s) ==
  LET keep == {k \in 1..Len(s) : s[k] \notin WhiteSpace}
  IN  IF keep = {} THEN <<>>
      ELSE LET lo == CHOOSE k \in keep : \A m \in keep : k <= m
               hi == CHOOSE k \in keep : \A m \in keep : k >= m
           IN  SubSeq(s, lo, hi)

\* String.prototype.includes
Includes(s, w) ==
  \E k \in 0..(Len(s) - Len(w)) : \A m \in 1..Len(w) : s[k + m] = w[m]

\* the keywords of getFallbackResponse
KwLoading == <<"l", "o", "a", "d", "i", "n", "g">>
KwLoad    == <<"u0E42", "u0E2B", "u0E25", "u0E14">>
KwSawasdee == <<"u0E2A", "u0E27", "u0E31", "u0E2A", "u0E14", "u0E35">>
KwWatdee  == <<"u0E2B", "u0E27", "u0E31", "u0E14", "u0E14", "u0E35">>
KwHello   == <<"h", "e", "l", "l", "o">>
KwThodsob == <<"u0E17", "u0E14", "u0E2A", "u0E2D", "u0E1A">>
KwTest    == <<"t", "e", "s", "t">>
KwConnect == <<"u0E40", "u0E0A", "u0E37", "u0E48", "u0E2D", "u0E21", "u0E15",
               "u0E48", "u0E2D">>

-----------------------------------------------------------------------------
(* Pure helpers of server.js *)

\* getLoadingDuration with the bands closed on the other side (< for <=)
getLoadingDurationStrictBands(message) ==
  IF Len(message) < 10 THEN 3
  ELSE IF Len(message) < 30 THEN 4
  ELSE IF Len(message) < 100 THEN 5
  ELSE 6

\* server.js:224-238
getLoadingDuration(message) ==
  IF Len(message) <= 10 THEN 3
  ELSE IF Len(message) <= 30 THEN 4
  ELSE IF Len(message) <= 100 THEN 5
  ELSE 6

\* getFallbackResponse with a default branch that hands the message back
\* as it came
FallbackResponseEchoes(message, ready) ==
  LET lowerMessage == ToLowerCase(message) IN
  IF Includes(lowerMessage, KwLoading) \/ Includes(lowerMessage, KwLoad)
    THEN <<"L346">>
  ELSE IF \/ Includes(lowerMessage, KwSawasdee)
          \/ Includes(lowerMessage, KwWatdee)
          \/ Includes(lowerMessage, KwHello)
    THEN <<"L351">>
  ELSE IF Includes(lowerMessage, KwThodsob) \/ Includes(lowerMessage, KwTest)
    THEN <<"L355a", IF ready THEN "L355ready" ELSE "Fallback", "L355b">>
  ELSE IF Includes(lowerMessage, KwConnect)
    THEN <<"L359a", IF ready THEN "L359ready" ELSE "L359notready", "L359b">>
  ELSE message

\* getFallbackResponse matching the keywords against the message itself,
\* without toLowerCase
FallbackResponseCaseSensitive(message, ready) ==
  IF Includes(message, KwLoading) \/ Includes(message, KwLoad)
    THEN <<"L346">>
  ELSE IF \/ Includes(message, KwSawasdee)
          \/ Includes(message, KwWatdee)
          \/ Includes(message, KwHello)
    THEN <<"L351">>
  ELSE IF Includes(message, KwThodsob) \/ Includes(message, KwTest)
    THEN <<"L355a", IF ready THEN "L355ready" ELSE "Fallback", "L355b">>
  ELSE IF Includes(message, KwConnect)
    THEN <<"L359a", IF ready THEN "L359ready" ELSE "L359notready", "L359b">>
  ELSE <<"L364a">> \o message
          \o <<"L364b", ToString(getLoadingDuration(message)), "L364c">>

\* server.js:339-365; reads the process-wide readiness flag
FallbackResponse(message, ready) ==
  LET lowerMessage == ToLowerCase(message) IN
  IF Includes(lowerMessage, KwLoading) \/ Includes(lowerMessage, KwLoad)
    THEN <<"L346">>
  ELSE IF \/ Includes(lowerMessage, KwSawasdee)
          \/ Includes(lowerMessage, KwWatdee)
          \/ Includes(lowerMessage, KwHello)
    THEN <<"L351">>
  ELSE IF Includes(lowerMessage, KwThodsob) \/ Includes(lowerMessage, KwTest)
    THEN <<"L355a", IF ready THEN "L355ready" ELSE "Fallback", "L355b">>
  ELSE IF Includes(lowerMessage, KwConnect)
    THEN <<"L359a", IF ready THEN "L359ready" ELSE "L359notready", "L359b">>
  ELSE <<"L364a">> \o message
          \o <<"L364b", ToString(getLoadingDuration(message)), "L364c">>

getFallbackResponse(message) == FallbackResponse(message, dialogflowReady)

\* server.js:213, the text of the apology reply
ApologyText == <<"L213">>

-----------------------------------------------------------------------------
(* Inputs *)

\* message.text of the text events of a delivery: an upper-case greeting
\* with surrounding blanks (band 3) and an 11-unit text with no keyword
\* (band 4)
PipelineTexts ==
  { <<" ", "H", "E", "L", "L", "O", " ">>,
    <<"a", "b", "c", "d", "e", "f", "g", "h", "i", "j", "k">> }

\* The shapes of one entry of req.body.events.  replyToken is filled in by
\* position, so that every event of a delivery carries its own token.
EventShapes(texts) ==
  {[type |-> "follow", hasMessage |-> FALSE, mtype |-> "none", text |-> <<>>,
    hasSource |-> TRUE],
   [type |-> "message", hasMessage |-> TRUE, mtype |-> "image",
    text |-> <<>>, hasSource |-> TRUE],
   \* malformed: a message event with no message object
   [type |-> "message", hasMessage |-> FALSE, mtype |-> "none",
    text |-> <<>>, hasSource |-> TRUE],
   \* malformed: a text message with no source object
   [type |-> "message", hasMessage |-> TRUE, mtype |-> "text",
    text |-> <<"h", "i">>, hasSource |-> FALSE]}
  \cup {[type |-> "message", hasMessage |-> TRUE, mtype |-> "text",
         text |-> t, hasSource |-> TRUE] : t \in texts}

Deliveries(maxN, texts) ==
  UNION {[1..n -> EventShapes(texts)] : n \in 0..maxN}

\* What sessionClient.detectIntent can do: answer with a fulfillmentText
\* (usable, empty, blank or absent) or fail with one of the error classes.
NluAnswers ==
  {[ok |-> TRUE, present |-> TRUE, text |-> <<"o", "k">>, code |-> "none"],
   [ok |-> TRUE, present |-> TRUE, text |-> <<>>, code |-> "none"],
   [ok |-> TRUE, present |-> TRUE, text |-> <<" ">>, code |-> "none"],
   [ok |-> TRUE, present |-> FALSE, text |-> <<>>, code |-> "none"]}

NluErrorCodes == {"UNAVAILABLE", "ENOENT", "INVALID_ARGUMENT",
                  "PERMISSION_DENIED"}

NluFailures ==
  {[ok |-> FALSE, present |-> FALSE, text |-> <<>>, code |-> c] :
     c \in NluErrorCodes}

NluOutcomes == NluAnswers \cup NluFailures

NluTimes == {1000 * k : k \in 0..MaxNluSeconds}

\* GOOGLE_APPLICATION_CREDENTIALS_JSON / GOOGLE_APPLICATION_CREDENTIALS
Environments == {"json", "badjson", "file", "none"}

-----------------------------------------------------------------------------
(* The per-event record of external calls *)

\* the outcome field of a call that is not an NLU query
NoOutcome == [ok |-> FALSE, present |-> FALSE, text |-> <<>>, code |-> "none"]

Call(api, token, text, secs, ms) ==
  [api |-> api, token |-> token, text |-> text, secs |-> secs,
   res |-> "pending", ms |-> ms, out |-> NoOutcome]

EventIds == DOMAIN events

\* the log of event i with its last (pending) call completed
Completed(i, res, ms, out) ==
  [log[i] EXCEPT ![Len(log[i])] =
     [@ EXCEPT !.res = res, !.ms = ms, !.out = out]]

\* server.js:172
userMessage(i) == Trim(events[i].text)

\* server.js:179
loadingSeconds(i) == getLoadingDuration(userMessage(i))

WellFormed(e) ==
  /\ e.type = "message" => e.hasMessage
  /\ (e.type = "message" /\ e.hasMessage /\ e.mtype = "text") => e.hasSource

\* a text-message event (server.js:165, part_000:104)
Qualifies(e) == e.type = "message" /\ e.hasMessage /\ e.mtype = "text"

Settled(i) == result[i] # "pending"

NoResponse == [status |-> 0, body |-> "none", processed |-> 0]

InitProcess ==
  /\ phase = "start"
  /\ sessionClient = "null"
  /\ dialogflowReady = FALSE
  /\ events = <<>>
  /\ pc = <<>>
  /\ botResponse = <<>>
  /\ log = <<>>
  /\ result = <<>>
  /\ response = NoResponse

Init == InitProcess /\ revision = "server"

\* server.js:24-51, run once when the module is loaded
initializeDialogflow(env) ==
  /\ phase = "start"
  /\ revision = "server"
  /\ phase' = "listening"
  /\ sessionClient' = IF env \in {"json", "file"} THEN "client" ELSE "null"
  /\ dialogflowReady' = (env \in {"json", "file"})
  /\ UNCHANGED <<revision, events, pc, botResponse, log, result, response>>

-----------------------------------------------------------------------------
(* server.js: POST /webhook and handleEvent *)

\* Dispatch with the filter of line 165 testing event.type alone
DispatchIgnoresContentType(e) ==
  IF e.type # "message" THEN [pc |-> "done", result |-> "null", log |-> <<>>]
  ELSE IF ~e.hasMessage \/ ~e.hasSource
    THEN [pc |-> "done", result |-> "rejected", log |-> <<>>]
  ELSE [pc |-> "loadingStart", result |-> "pending",
        log |-> <<Call("loadingStart", 0, <<>>,
                       getLoadingDuration(Trim(e.text)), 0)>>]

\* server.js:161-180: handleEvent runs synchronously up to its first await,
\* the axios.post of showRealLoadingAnimation.  A TypeError thrown before
\* the try of line 176 rejects the promise.
Dispatch(e) ==
  IF e.type # "message" THEN [pc |-> "done", result |-> "null", log |-> <<>>]
  ELSE IF ~e.hasMessage
    THEN [pc |-> "done", result |-> "rejected", log |-> <<>>]
  ELSE IF e.mtype # "text"
    THEN [pc |-> "done", result |-> "null", log |-> <<>>]
  ELSE IF ~e.hasSource
    THEN [pc |-> "done", result |-> "rejected", log |-> <<>>]
  ELSE [pc |-> "loadingStart", result |-> "pending",
        log |-> <<Call("loadingStart", 0, <<>>,
                       getLoadingDuration(Trim(e.text)), 0)>>]

\* server.js:133-146: the handler up to its await of Promise.all
WebhookOn(evs) ==
  /\ revision = "server"
  /\ phase = "listening"
  /\ events' = evs
  /\ pc' = [i \in DOMAIN evs |-> Dispatch(evs[i]).pc]
  /\ result' = [i \in DOMAIN evs |-> Dispatch(evs[i]).result]
  /\ log' = [i \in DOMAIN evs |-> Dispatch(evs[i]).log]
  /\ botResponse' = [i \in DOMAIN evs |-> <<>>]
  /\ IF Len(evs) = 0
       THEN /\ response' = [status |-> 200, body |-> "OK", processed |-> 0]
            /\ phase' = "responded"
       ELSE /\ response' = NoResponse
            /\ phase' = "handling"
  /\ UNCHANGED <<revision, sessionClient, dialogflowReady>>

Webhook == \E evs \in Deliveries(MaxEvents, PipelineTexts) : WebhookOn(evs)

\* server.js:187: the wait before the reply
TopUpMs(i) == Max(0, loadingSeconds(i) * 1000 - 1000)

\* Resolve without the readiness test of line 282
ResolveAlwaysQueries(i, lg) ==
  /\ botResponse' = botResponse
  /\ log' = [log EXCEPT ![i] =
       Append(lg, Call("detectIntent", 0, userMessage(i), 0, 0))]
  /\ pc' = [pc EXCEPT ![i] = "detectIntent"]

\* server.js:281-285 and 304-323: processWithDialogflow up to its first
\* await, or to its return when the gateway is not ready; handleEvent then
\* goes on to the sleep of line 187.  lg is the log so far.
Resolve(i, lg) ==
  IF ~dialogflowReady \/ sessionClient = "null"
    THEN /\ botResponse' =
              [botResponse EXCEPT ![i] = getFallbackResponse(userMessage(i))]
         /\ log' = [log EXCEPT ![i] =
              Append(lg, Call("sleep", 0, <<>>, 0, TopUpMs(i)))]
         /\ pc' = [pc EXCEPT ![i] = "sleep"]
    ELSE /\ botResponse' = botResponse
         /\ log' = [log EXCEPT ![i] =
              Append(lg, Call("detectIntent", 0, userMessage(i), 0, 0))]
         /\ pc' = [pc EXCEPT ![i] = "detectIntent"]

\* showRealLoadingAnimation with no catch: a failed loading-start call
\* reaches the catch of handleEvent, which sends the apology
showRealLoadingAnimationThrows(i, ok) ==
  /\ pc[i] = "loadingStart"
  /\ IF ok
       THEN Resolve(i, Completed(i, "ok", 0, NoOutcome))
       ELSE /\ log' = [log EXCEPT ![i] =
                 Append(Completed(i, "fail", 0, NoOutcome),
                        Call("replyMessage", i, ApologyText, 0, 0))]
            /\ pc' = [pc EXCEPT ![i] = "apology"]
            /\ botResponse' = botResponse
  /\ UNCHANGED <<phase, revision, sessionClient, dialogflowReady, events,
                 result, response>>

\* server.js:245-277: the loading-start call returns or fails
showRealLoadingAnimation(i, ok) ==
  /\ pc[i] = "loadingStart"
  /\ IF ok
       THEN Resolve(i, Completed(i, "ok", 0, NoOutcome))
       ELSE /\ log' = [log EXCEPT ![i] =
                 Append(Completed(i, "fail", 0, NoOutcome),
                        Call("sleep", 0, <<>>, 0, loadingSeconds(i) * 1000))]
            /\ pc' = [pc EXCEPT ![i] = "fallbackSleep"]
            /\ botResponse' = botResponse
  /\ UNCHANGED <<phase, revision, sessionClient, dialogflowReady, events,
                 result, response>>

\* FallbackSleepDone with the loading-start call issued again once the
\* fallback sleep is over
FallbackSleepDoneRetriesIndicator(i) ==
  /\ pc[i] = "fallbackSleep"
  /\ log' = [log EXCEPT ![i] =
       Append(Completed(i, "ok", log[i][Len(log[i])].ms, NoOutcome),
              Call("loadingStart", 0, <<>>, loadingSeconds(i), 0))]
  /\ pc' = [pc EXCEPT ![i] = "loadingStart"]
  /\ UNCHANGED <<phase, revision, sessionClient, dialogflowReady, events,
                 botResponse, result, response>>

\* server.js:269-277: the fallback sleep is over
FallbackSleepDone(i) ==
  /\ pc[i] = "fallbackSleep"
  /\ Resolve(i, Completed(i, "ok", log[i][Len(log[i])].ms, NoOutcome))
  /\ UNCHANGED <<phase, revision, sessionClient, dialogflowReady, events,
                 result, response>>

\* processWithDialogflow with line 290 testing dialogflowResponse alone,
\* without trim()
processWithDialogflowNoTrim(i, out) ==
  IF out.ok /\ out.present /\ out.text # <<>>
    THEN out.text
    ELSE getFallbackResponse(userMessage(i))

\* server.js:287-300: what processWithDialogflow returns for an outcome of
\* queryDialogflow (a failure is rethrown by lines 332-335 and caught at 297)
processWithDialogflow(i, out) ==
  IF out.ok /\ out.present /\ out.text # <<>> /\ Trim(out.text) # <<>>
    THEN out.text
    ELSE getFallbackResponse(userMessage(i))

\* DetectIntentReturns with no catch at line 297: a failed query reaches
\* the catch of handleEvent, which sends the apology
DetectIntentReturnsRethrows(i, out, ms) ==
  /\ pc[i] = "detectIntent"
  /\ IF out.ok
       THEN /\ botResponse' =
                 [botResponse EXCEPT ![i] = processWithDialogflow(i, out)]
            /\ log' = [log EXCEPT ![i] =
                 Append(Completed(i, "ok", ms, out),
                        Call("sleep", 0, <<>>, 0, TopUpMs(i)))]
            /\ pc' = [pc EXCEPT ![i] = "sleep"]
       ELSE /\ botResponse' = botResponse
            /\ log' = [log EXCEPT ![i] =
                 Append(Completed(i, "fail", ms, out),
                        Call("replyMessage", i, ApologyText, 0, 0))]
            /\ pc' = [pc EXCEPT ![i] = "apology"]
  /\ UNCHANGED <<phase, revision, sessionClient, dialogflowReady, events,
                 result, response>>

\* DetectIntentReturns with a failed query marking the gateway not ready
\* for the events that follow
DetectIntentReturnsMarksNotReady(i, out, ms) ==
  /\ pc[i] = "detectIntent"
  /\ botResponse' = [botResponse EXCEPT ![i] = processWithDialogflow(i, out)]
  /\ log' = [log EXCEPT ![i] =
       Append(Completed(i, IF out.ok THEN "ok" ELSE "fail", ms, out),
              Call("sleep", 0, <<>>, 0, TopUpMs(i)))]
  /\ pc' = [pc EXCEPT ![i] = "sleep"]
  /\ dialogflowReady' = (dialogflowReady /\ out.ok)
  /\ UNCHANGED <<phase, revision, sessionClient, events, result, response>>

\* server.js:323-336, 288-300, 187: detectIntent returns or fails
DetectIntentReturns(i, out, ms) ==
  /\ pc[i] = "detectIntent"
  /\ botResponse' = [botResponse EXCEPT ![i] = processWithDialogflow(i, out)]
  /\ log' = [log EXCEPT ![i] =
       Append(Completed(i, IF out.ok THEN "ok" ELSE "fail", ms, out),
              Call("sleep", 0, <<>>, 0, TopUpMs(i)))]
  /\ pc' = [pc EXCEPT ![i] = "sleep"]
  /\ UNCHANGED <<phase, revision, sessionClient, dialogflowReady, events,
                 result, response>>

\* server.js:187-194: the wait is over, the primary reply is sent
SleepDone(i) ==
  /\ pc[i] = "sleep"
  /\ log' = [log EXCEPT ![i] =
       Append(Completed(i, "ok", log[i][Len(log[i])].ms, NoOutcome),
              Call("replyMessage", i, botResponse[i], 0, 0))]
  /\ pc' = [pc EXCEPT ![i] = "reply"]
  /\ UNCHANGED <<phase, revision, sessionClient, dialogflowReady, events,
                 botResponse, result, response>>

\* ReplyReturns with no apology: a failed primary send ends the event
ReplyReturnsGivesUp(i, ok) ==
  /\ pc[i] = "reply"
  /\ log' = [log EXCEPT ![i] =
       Completed(i, IF ok THEN "ok" ELSE "fail", 0, NoOutcome)]
  /\ pc' = [pc EXCEPT ![i] = "done"]
  /\ result' = [result EXCEPT ![i] = IF ok THEN "success" ELSE "error"]
  /\ UNCHANGED <<phase, revision, sessionClient, dialogflowReady, events,
                 botResponse, response>>

\* ReplyReturns with the apology sent whatever the primary send did (as if
\* the error reply stood in a finally block)
ReplyReturnsAlwaysApologises(i, ok) ==
  /\ pc[i] = "reply"
  /\ log' = [log EXCEPT ![i] =
       Append(Completed(i, IF ok THEN "ok" ELSE "fail", 0, NoOutcome),
              Call("replyMessage", i, ApologyText, 0, 0))]
  /\ pc' = [pc EXCEPT ![i] = "apology"]
  /\ result' = result
  /\ UNCHANGED <<phase, revision, sessionClient, dialogflowReady, events,
                 botResponse, response>>

\* server.js:191-214: the primary replyMessage returns or fails
ReplyReturns(i, ok) ==
  /\ pc[i] = "reply"
  /\ IF ok
       THEN /\ log' = [log EXCEPT ![i] = Completed(i, "ok", 0, NoOutcome)]
            /\ pc' = [pc EXCEPT ![i] = "done"]
            /\ result' = [result EXCEPT ![i] = "success"]
       ELSE /\ log' = [log EXCEPT ![i] =
                 Append(Completed(i, "fail", 0, NoOutcome),
                        Call("replyMessage", i, ApologyText, 0, 0))]
            /\ pc' = [pc EXCEPT ![i] = "apology"]
            /\ result' = result
  /\ UNCHANGED <<phase, revision, sessionClient, dialogflowReady, events,
                 botResponse, response>>

\* ApologyReturns with the apology sent again when it fails
ApologyReturnsRetries(i, ok) ==
  /\ pc[i] = "apology"
  /\ IF ok
       THEN /\ log' = [log EXCEPT ![i] = Completed(i, "ok", 0, NoOutcome)]
            /\ pc' = [pc EXCEPT ![i] = "done"]
            /\ result' = [result EXCEPT ![i] = "error"]
       ELSE /\ log' = [log EXCEPT ![i] =
                 Append(Completed(i, "fail", 0, NoOutcome),
                        Call("replyMessage", i, ApologyText, 0, 0))]
            /\ pc' = pc
            /\ result' = result
  /\ UNCHANGED <<phase, revision, sessionClient, dialogflowReady, events,
                 botResponse, response>>

\* ApologyReturns with no inner catch (lines 215-217): a failed apology
\* send rejects handleEvent
ApologyReturnsRethrows(i, ok) ==
  /\ pc[i] = "apology"
  /\ log' = [log EXCEPT ![i] =
       Completed(i, IF ok THEN "ok" ELSE "fail", 0, NoOutcome)]
  /\ pc' = [pc EXCEPT ![i] = "done"]
  /\ result' = [result EXCEPT ![i] = IF ok THEN "error" ELSE "rejected"]
  /\ UNCHANGED <<phase, revision, sessionClient, dialogflowReady, events,
                 botResponse, response>>

\* ApologyReturns with the outcome telling whether the apology got
\* through: success when it did, error when it did not
ApologyReturnsReportsApology(i, ok) ==
  /\ pc[i] = "apology"
  /\ log' = [log EXCEPT ![i] =
       Completed(i, IF ok THEN "ok" ELSE "fail", 0, NoOutcome)]
  /\ pc' = [pc EXCEPT ![i] = "done"]
  /\ result' = [result EXCEPT ![i] = IF ok THEN "success" ELSE "error"]
  /\ UNCHANGED <<phase, revision, sessionClient, dialogflowReady, events,
                 botResponse, response>>

\* server.js:211-219: the apology replyMessage returns or fails
ApologyReturns(i, ok) ==
  /\ pc[i] = "apology"
  /\ log' = [log EXCEPT ![i] =
       Completed(i, IF ok THEN "ok" ELSE "fail", 0, NoOutcome)]
  /\ pc' = [pc EXCEPT ![i] = "done"]
  /\ result' = [result EXCEPT ![i] = "error"]
  /\ UNCHANGED <<phase, revision, sessionClient, dialogflowReady, events,
                 botResponse, response>>

\* WebhookRespond with the answer sent as soon as one event has settled
\* (as Promise.race would)
WebhookRespondOnFirstSettled ==
  /\ revision = "server"
  /\ phase = "handling"
  /\ \/ /\ \E i \in EventIds : result[i] = "rejected"
        /\ response' = [status |-> 500, body |-> "error", processed |-> 0]
     \/ /\ \E i \in EventIds : Settled(i) /\ result[i] # "rejected"
        /\ response' = [status |-> 200, body |-> "processed",
                        processed |-> Len(result)]
  /\ phase' = "responded"
  /\ UNCHANGED <<revision, sessionClient, dialogflowReady, events, pc,
                 botResponse, log, result>>

\* WebhookRespond with no answer sent unless every event ended in success
WebhookRespondNeedsAllSuccess ==
  /\ revision = "server"
  /\ phase = "handling"
  /\ \/ /\ \E i \in EventIds : result[i] = "rejected"
        /\ response' = [status |-> 500, body |-> "error", processed |-> 0]
     \/ /\ \A i \in EventIds : result[i] = "success"
        /\ response' = [status |-> 200, body |-> "processed",
                        processed |-> Len(result)]
  /\ phase' = "responded"
  /\ UNCHANGED <<revision, sessionClient, dialogflowReady, events, pc,
                 botResponse, log, result>>

\* server.js:144-157: Promise.all settles, the delivery is answered
WebhookRespond ==
  /\ revision = "server"
  /\ phase = "handling"
  /\ \/ /\ \E i \in EventIds : result[i] = "rejected"
        /\ response' = [status |-> 500, body |-> "error", processed |-> 0]
     \/ /\ \A i \in EventIds : Settled(i) /\ result[i] # "rejected"
        /\ response' = [status |-> 200, body |-> "processed",
                        processed |-> Len(result)]
  /\ phase' = "responded"
  /\ UNCHANGED <<revision, sessionClient, dialogflowReady, events, pc,
                 botResponse, log, result>>

Next ==
  \/ \E env \in Environments : initializeDialogflow(env)
  \/ Webhook
  \/ \E i \in EventIds, ok \in BOOLEAN : showRealLoadingAnimation(i, ok)
  \/ \E i \in EventIds : FallbackSleepDone(i)
  \/ \E i \in EventIds, out \in NluOutcomes, ms \in NluTimes :
       DetectIntentReturns(i, out, ms)
  \/ \E i \in EventIds : SleepDone(i)
  \/ \E i \in EventIds, ok \in BOOLEAN : ReplyReturns(i, ok)
  \/ \E i \in EventIds, ok \in BOOLEAN : ApologyReturns(i, ok)
  \/ WebhookRespond

Spec == Init /\ [][Next]_vars

-----------------------------------------------------------------------------
(* server.js with the events of a batch followed together *)

\* message.text of the text events of a batch
BatchTexts == { <<"h", "i">>, <<"t", "e", "s", "t">> }

\* what detectIntent does for the events of a batch: a usable answer or a
\* failure
BatchNluOutcomes ==
  {[ok |-> TRUE, present |-> TRUE, text |-> <<"o", "k">>, code |-> "none"],
   [ok |-> FALSE, present |-> FALSE, text |-> <<>>, code |-> "UNAVAILABLE"]}

BatchWebhook == \E evs \in Deliveries(MaxBatch, BatchTexts) : WebhookOn(evs)

NextBatch ==
  \/ \E env \in {"json", "none"} : initializeDialogflow(env)
  \/ BatchWebhook
  \/ \E i \in EventIds, ok \in BOOLEAN : showRealLoadingAnimation(i, ok)
  \/ \E i \in EventIds : FallbackSleepDone(i)
  \/ \E i \in EventIds, out \in BatchNluOutcomes :
       DetectIntentReturns(i, out, 0)
  \/ \E i \in EventIds : SleepDone(i)
  \/ \E i \in EventIds, ok \in BOOLEAN : ReplyReturns(i, ok)
  \/ \E i \in EventIds, ok \in BOOLEAN : ApologyReturns(i, ok)
  \/ WebhookRespond

SpecBatch == Init /\ [][NextBatch]_vars

\* a step of the handler of event i: one of its awaited calls or sleeps
\* returns
EventStep(i) ==
  \/ \E ok \in BOOLEAN : showRealLoadingAnimation(i, ok)
  \/ FallbackSleepDone(i)
  \/ \E out \in BatchNluOutcomes : DetectIntentReturns(i, out, 0)
  \/ SleepDone(i)
  \/ \E ok \in BOOLEAN : ReplyReturns(i, ok)
  \/ \E ok \in BOOLEAN : ApologyReturns(i, ok)

-----------------------------------------------------------------------------
(* server.js with every awaited call and sleep returning in the end *)

\* events per delivery when the handlers are run to their end
MaxFairBatch == 2

\* message.text of the text events
FairTexts == { <<"h", "i">> }

FairWebhook ==
  \E evs \in Deliveries(MaxFairBatch, FairTexts) : WebhookOn(evs)

NextFair ==
  \/ \E env \in {"json", "none"} : initializeDialogflow(env)
  \/ FairWebhook
  \/ \E i \in EventIds, ok \in BOOLEAN : showRealLoadingAnimation(i, ok)
  \/ \E i \in EventIds : FallbackSleepDone(i)
  \/ \E i \in EventIds, out \in BatchNluOutcomes :
       DetectIntentReturns(i, out, 0)
  \/ \E i \in EventIds : SleepDone(i)
  \/ \E i \in EventIds, ok \in BOOLEAN : ReplyReturns(i, ok)
  \/ \E i \in EventIds, ok \in BOOLEAN : ApologyReturns(i, ok)
  \/ WebhookRespond

\* the i-th event of the delivery, if there is one, takes a step
StepOf(i) == i \in EventIds /\ EventStep(i)

\* Every call and sleep an event awaits returns or fails in the end, and
\* the continuation of the settled Promise.all is run.
Fairness ==
  /\ \A i \in 1..MaxFairBatch : WF_vars(StepOf(i))
  /\ WF_vars(WebhookRespond)

SpecFair == Init /\ [][NextFair]_vars /\ Fairness

-----------------------------------------------------------------------------
(* The status-message revision, src/unnamed/part_000 *)

\* part_000:140-146
typingMessages == <<"L141", "L142", "L143", "L144", "L145">>

\* message.text of the text events given to the status-message revision
StatusTexts == { <<"h", "i">> }

\* part_000:17-35, run once when the module is loaded
createSessionClient ==
  /\ phase = "start"
  /\ revision = "status"
  /\ phase' = "listening"
  /\ sessionClient' = "client"
  /\ UNCHANGED <<revision, dialogflowReady, events, pc, botResponse, log,
                 result, response>>

\* part_000:100-115 and 139-155: handleEvent runs synchronously up to its
\* first await, the pushMessage of showTypingStatus; k is the index
\* Math.random selects
StatusDispatch(e, k) ==
  IF e.type # "message" THEN [pc |-> "done", result |-> "null", log |-> <<>>]
  ELSE IF ~e.hasMessage
    THEN [pc |-> "done", result |-> "rejected", log |-> <<>>]
  ELSE IF e.mtype # "text"
    THEN [pc |-> "done", result |-> "null", log |-> <<>>]
  ELSE IF ~e.hasSource
    THEN [pc |-> "done", result |-> "rejected", log |-> <<>>]
  ELSE [pc |-> "push", result |-> "pending",
        log |-> <<Call("pushMessage", 0, <<typingMessages[k]>>, 0, 0)>>]

\* part_000:78-88
StatusWebhookOn(evs, pick) ==
  /\ revision = "status"
  /\ phase = "listening"
  /\ events' = evs
  /\ pc' = [i \in DOMAIN evs |-> StatusDispatch(evs[i], pick[i]).pc]
  /\ result' = [i \in DOMAIN evs |-> StatusDispatch(evs[i], pick[i]).result]
  /\ log' = [i \in DOMAIN evs |-> StatusDispatch(evs[i], pick[i]).log]
  /\ botResponse' = [i \in DOMAIN evs |-> <<>>]
  /\ IF Len(evs) = 0
       THEN /\ response' = [status |-> 200, body |-> "OK", processed |-> 0]
            /\ phase' = "responded"
       ELSE /\ response' = NoResponse
            /\ phase' = "handling"
  /\ UNCHANGED <<revision, sessionClient, dialogflowReady>>

StatusWebhook ==
  \E evs \in Deliveries(MaxEvents, StatusTexts) :
    \E pick \in [DOMAIN evs -> DOMAIN typingMessages] :
      StatusWebhookOn(evs, pick)

\* part_000:115-118 and 168-186: sendToDialogflow up to its await
StatusQuery(i, lg) ==
  /\ log' = [log EXCEPT ![i] =
       Append(lg, Call("detectIntent", 0, events[i].text, 0, 0))]
  /\ pc' = [pc EXCEPT ![i] = "sendToDialogflow"]

\* showTypingStatus with no catch: a failed status push reaches the catch
\* of handleEvent (part_000:127-135), which sends the apology
showTypingStatusThrows(i, ok) ==
  /\ pc[i] = "push"
  /\ IF ok
       THEN /\ log' = [log EXCEPT ![i] =
                 Append(Completed(i, "ok", 0, NoOutcome),
                        Call("sleep", 0, <<>>, 0, 1500))]
            /\ pc' = [pc EXCEPT ![i] = "typingSleep"]
       ELSE /\ log' = [log EXCEPT ![i] =
                 Append(Completed(i, "fail", 0, NoOutcome),
                        Call("replyMessage", i, <<"L133">>, 0, 0))]
            /\ pc' = [pc EXCEPT ![i] = "replyStatus"]
  /\ UNCHANGED <<phase, revision, sessionClient, dialogflowReady, events,
                 botResponse, result, response>>

\* part_000:150-164: the status push returns or fails
showTypingStatus(i, ok) ==
  /\ pc[i] = "push"
  /\ IF ok
       THEN /\ log' = [log EXCEPT ![i] =
                 Append(Completed(i, "ok", 0, NoOutcome),
                        Call("sleep", 0, <<>>, 0, 1500))]
            /\ pc' = [pc EXCEPT ![i] = "typingSleep"]
       ELSE StatusQuery(i, Completed(i, "fail", 0, NoOutcome))
  /\ UNCHANGED <<phase, revision, sessionClient, dialogflowReady, events,
                 botResponse, result, response>>

\* part_000:158-160: the 1.5 s wait is over
TypingSleepDone(i) ==
  /\ pc[i] = "typingSleep"
  /\ StatusQuery(i, Completed(i, "ok", 1500, NoOutcome))
  /\ UNCHANGED <<phase, revision, sessionClient, dialogflowReady, events,
                 botResponse, result, response>>

\* part_000:186-215: what sendToDialogflow returns for an outcome
sendToDialogflow(out) ==
  IF out.ok
    THEN IF out.present /\ out.text # <<>> THEN out.text ELSE <<"L194">>
  ELSE IF out.code = "ENOENT" THEN <<"L205">>
  ELSE IF out.code = "INVALID_ARGUMENT" THEN <<"L208">>
  ELSE IF out.code = "PERMISSION_DENIED" THEN <<"L211">>
  ELSE <<"L214">>

\* part_000:186-215 and 118-125: detectIntent returns or fails, the reply
\* is sent
StatusDetectIntentReturns(i, out) ==
  /\ pc[i] = "sendToDialogflow"
  /\ botResponse' = [botResponse EXCEPT ![i] = sendToDialogflow(out)]
  /\ log' = [log EXCEPT ![i] =
       Append(Completed(i, IF out.ok THEN "ok" ELSE "fail", 0, out),
              Call("replyMessage", i, sendToDialogflow(out), 0, 0))]
  /\ pc' = [pc EXCEPT ![i] = "replyStatus"]
  /\ UNCHANGED <<phase, revision, sessionClient, dialogflowReady, events,
                 result, response>>

\* part_000:122-125: the promise of replyMessage is returned, not awaited,
\* so its rejection settles handleEvent and never enters the catch of
\* lines 127-135
StatusReplyReturns(i, ok) ==
  /\ pc[i] = "replyStatus"
  /\ log' = [log EXCEPT ![i] =
       Completed(i, IF ok THEN "ok" ELSE "fail", 0, NoOutcome)]
  /\ pc' = [pc EXCEPT ![i] = "done"]
  /\ result' = [result EXCEPT ![i] = IF ok THEN "resolved" ELSE "rejected"]
  /\ UNCHANGED <<phase, revision, sessionClient, dialogflowReady, events,
                 botResponse, response>>

\* part_000:87-96: Promise.all settles, the delivery is answered
StatusWebhookRespond ==
  /\ revision = "status"
  /\ phase = "handling"
  /\ \/ /\ \E i \in EventIds : result[i] = "rejected"
        /\ response' = [status |-> 500, body |-> "error", processed |-> 0]
     \/ /\ \A i \in EventIds : Settled(i) /\ result[i] # "rejected"
        /\ response' = [status |-> 200, body |-> "results",
                        processed |-> Len(result)]
  /\ phase' = "responded"
  /\ UNCHANGED <<revision, sessionClient, dialogflowReady, events, pc,
                 botResponse, log, result>>

NextStatus ==
  \/ createSessionClient
  \/ StatusWebhook
  \/ \E i \in EventIds, ok \in BOOLEAN : showTypingStatus(i, ok)
  \/ \E i \in EventIds : TypingSleepDone(i)
  \/ \E i \in EventIds, out \in NluOutcomes : StatusDetectIntentReturns(i, out)
  \/ \E i \in EventIds, ok \in BOOLEAN : StatusReplyReturns(i, ok)
  \/ StatusWebhookRespond

InitStatus == InitProcess /\ revision = "status"

SpecStatus == InitStatus /\ [][NextStatus]_vars

\* events per delivery when the events of a batch of the status-message
\* revision are followed together
MaxStatusBatch == 2

\* part_000:78-88 with Math.random selecting the first typing message
StatusBatchWebhook ==
  \E evs \in Deliveries(MaxStatusBatch, StatusTexts) :
    StatusWebhookOn(evs, [i \in DOMAIN evs |-> 1])

NextStatusBatch ==
  \/ createSessionClient
  \/ StatusBatchWebhook
  \/ \E i \in EventIds, ok \in BOOLEAN : showTypingStatus(i, ok)
  \/ \E i \in EventIds : TypingSleepDone(i)
  \/ \E i \in EventIds, out \in BatchNluOutcomes :
       StatusDetectIntentReturns(i, out)
  \/ \E i \in EventIds, ok \in BOOLEAN : StatusReplyReturns(i, ok)
  \/ StatusWebhookRespond

SpecStatusBatch == InitStatus /\ [][NextStatusBatch]_vars

\* either revision deployed
InitRevisions == InitProcess /\ revision \in {"server", "status"}

NextRevisions == Next \/ NextStatus

SpecRevisions == InitRevisions /\ [][NextRevisions]_vars

-----------------------------------------------------------------------------
(* The pure helpers of server.js applied to chosen texts *)

\* a text of n code units with no keyword in it
Filler(n) == [k \in 1..n |-> "x"]

Keywords == {KwLoading, KwLoad, KwSawasdee, KwWatdee, KwHello, KwThodsob,
             KwTest, KwConnect}

\* keywords written with capitals
Capitalised ==
  { <<"H", "E", "L", "L", "O">>, <<"H", "e", "l", "l", "O">>,
    <<"L", "O", "A", "D", "I", "N", "G">>, <<"T", "e", "s", "t">> }

\* texts with one keyword, alone or inside other text, and texts with two
\* keywords in either order
KeywordTexts ==
  LET words == Keywords \cup Capitalised IN
    words
    \cup {<<"x", " ">> \o w \o <<"x", "x">> : w \in words}
    \cup {a \o <<" ">> \o b : a \in words, b \in words}

\* the arguments the helpers are called with: every length from the empty
\* text to MaxTextLen, a blank text, and the keyword texts
HelperTexts ==
  {Filler(n) : n \in 0..MaxTextLen} \cup {<<" ">>} \cup KeywordTexts

\* The process after start-up, with one text about to be given to the
\* helpers; events[1].text is the argument.
InitHelpers ==
  /\ phase = "helpers"
  /\ revision = "server"
  /\ dialogflowReady \in BOOLEAN
  /\ sessionClient = IF dialogflowReady THEN "client" ELSE "null"
  /\ events \in {<<[type |-> "message", hasMessage |-> TRUE, mtype |-> "text",
                    text |-> t, hasSource |-> TRUE]>> : t \in HelperTexts}
  /\ pc = <<"helpers">>
  /\ botResponse = << <<>> >>
  /\ log = << <<>> >>
  /\ result = <<"pending">>
  /\ response = NoResponse

\* server.js:224-238 called with events[1].text; the call and the value it
\* returned (secs) are recorded in the log
ApplyGetLoadingDuration ==
  /\ phase = "helpers"
  /\ log[1] = <<>>
  /\ log' = [log EXCEPT ![1] =
       <<[Call("getLoadingDuration", 0, events[1].text,
               getLoadingDuration(events[1].text), 0) EXCEPT !.res = "ok"]>>]
  /\ UNCHANGED <<phase, revision, sessionClient, dialogflowReady, events, pc,
                 botResponse, result, response>>

\* server.js:339-365 called with events[1].text; botResponse[1] is the
\* value it returned
ApplyGetFallbackResponse ==
  /\ phase = "helpers"
  /\ result[1] = "pending"
  /\ botResponse' =
       [botResponse EXCEPT ![1] = getFallbackResponse(events[1].text)]
  /\ result' = [result EXCEPT ![1] = "returned"]
  /\ UNCHANGED <<phase, revision, sessionClient, dialogflowReady, events, pc,
                 log, response>>

NextHelpers == ApplyGetLoadingDuration \/ ApplyGetFallbackResponse

SpecHelpers == InitHelpers /\ [][NextHelpers]_vars

-----------------------------------------------------------------------------
(* Properties *)

\* the calls of one API that event i has made, in order
Calls(i, api) == SelectSeq(log[i], LAMBDA c : c.api = api)

\* the replyMessage calls of event i: the primary reply, then the apology
Replies(i) == Calls(i, "replyMessage")

\* event i entered the pipeline
InPipeline(i) == WellFormed(events[i]) /\ Qualifies(events[i])

\* C1: for a text-message event of server.js, once the first replyMessage
\* call has succeeded it is the only replyMessage call of the event, made
\* with the event's reply token, and the event has ended with success;
\* conversely an event that ended with success made exactly one call.
C1_OneReplyWhenFirstSucceeds ==
  \A i \in EventIds :
    /\ (Len(Replies(i)) >= 1 /\ Replies(i)[1].res = "ok")
         => /\ Len(Replies(i)) = 1
            /\ Replies(i)[1].token = i
            /\ pc[i] = "done"
            /\ result[i] = "success"
    /\ result[i] = "success"
         => Len(Replies(i)) = 1 /\ Replies(i)[1].res = "ok"

\* C1 witness: an event whose NLU query failed was answered from the
\* fallback by one successful reply
C1_Witness ==
  \E i \in EventIds :
    /\ result[i] = "success"
    /\ Len(Calls(i, "detectIntent")) = 1
    /\ Calls(i, "detectIntent")[1].res = "fail"
    /\ Len(Replies(i)) = 1
    /\ Replies(i)[1].text = getFallbackResponse(userMessage(i))

\* C2: an event of server.js makes at most two replyMessage calls, all with
\* its own reply token; the first carries the resolved text; a second one
\* exists only after the first has failed, carries the apology text, and is
\* the last call the event makes.
C2_ApologyOnlyAfterFailedReply ==
  \A i \in EventIds :
    LET r == Replies(i) IN
    /\ Len(r) <= 2
    /\ \A k \in 1..Len(r) : r[k].token = i
    /\ Len(r) >= 1 => r[1].text = botResponse[i]
    /\ Len(r) = 2 => /\ r[1].res = "fail"
                     /\ r[2].text = ApologyText
                     /\ log[i][Len(log[i])] = r[2]

\* C2 witness: the primary reply failed, the apology was sent once and
\* failed too, and the event has ended
C2_Witness ==
  \E i \in EventIds :
    /\ pc[i] = "done"
    /\ Len(Replies(i)) = 2
    /\ Replies(i)[1].res = "fail"
    /\ Replies(i)[2].res = "fail"

\* the replies of event i that reached the user
Delivered(i) == SelectSeq(Replies(i), LAMBDA c : c.res = "ok")

\* event i has put a question to the NLU backend and got its outcome
Queried(i) ==
  /\ Len(Calls(i, "detectIntent")) = 1
  /\ Calls(i, "detectIntent")[1].res # "pending"

NluOutcome(i) == Calls(i, "detectIntent")[1].out

\* a fulfillment text that is there and is not blank
Usable(out) == out.ok /\ out.present /\ Trim(out.text) # <<>>

\* the text the user can be given for event i: the NLU answer, the canned
\* fallback answer or the apology
UserVisibleTexts(i) ==
  {getFallbackResponse(userMessage(i)), ApologyText}
    \cup (IF Queried(i) /\ Usable(NluOutcome(i))
            THEN {NluOutcome(i).text} ELSE {})

\* C3 as claimed: every text-message event that has finished has delivered
\* exactly one message to the user.
C3_AlwaysOneDelivered ==
  \A i \in EventIds :
    (InPipeline(i) /\ pc[i] = "done") => Len(Delivered(i)) = 1

\* C3 amended: a finished text-message event has delivered at most one
\* message, which is the NLU answer, the fallback answer or the apology; it
\* has delivered none exactly when both the primary reply send and the
\* apology send failed.
C3_OneDeliveredUnlessBothSendsFail ==
  \A i \in EventIds :
    (InPipeline(i) /\ pc[i] = "done") =>
      /\ Len(Delivered(i)) <= 1
      /\ \A k \in 1..Len(Delivered(i)) :
           Delivered(i)[k].text \in UserVisibleTexts(i)
      /\ Len(Delivered(i)) = 0
           <=> /\ Len(Replies(i)) = 2
               /\ Replies(i)[1].res = "fail"
               /\ Replies(i)[2].res = "fail"

\* C3 witness: the indicator, the NLU query, the primary reply and the
\* apology all failed; the event finished and the user got nothing
C3_Witness ==
  \E i \in EventIds :
    /\ InPipeline(i) /\ pc[i] = "done"
    /\ Calls(i, "loadingStart")[1].res = "fail"
    /\ Queried(i) /\ ~NluOutcome(i).ok
    /\ Len(Replies(i)) = 2
    /\ Len(Delivered(i)) = 0

\* C4: a well-formed event of server.js that is not a message, or whose
\* message is not a text, settles to null at once: no indicator call, no
\* NLU query, no reply, no error.
C4_NonTextEventsSkipped ==
  revision = "server" =>
    \A i \in EventIds :
      (WellFormed(events[i]) /\ ~Qualifies(events[i])) =>
        /\ result[i] = "null"
        /\ pc[i] = "done"
        /\ log[i] = <<>>
        /\ botResponse[i] = <<>>

\* C4 witness: a delivery with an image message has been dispatched
C4_Witness ==
  \E i \in EventIds :
    /\ events[i].type = "message"
    /\ events[i].hasMessage
    /\ events[i].mtype = "image"
    /\ result[i] = "null"

NotReady == ~dialogflowReady \/ sessionClient = "null"

\* C5: while the gateway is not ready no event makes a detectIntent call,
\* and the resolved text and the text of the primary reply are
\* getFallbackResponse of the trimmed message.
C5_NotReadyNeverQueries ==
  NotReady =>
    \A i \in EventIds :
      /\ Calls(i, "detectIntent") = <<>>
      /\ pc[i] # "detectIntent"
      /\ pc[i] \in {"sleep", "reply", "apology"} \/ result[i] \in {"success", "error"}
           => botResponse[i] = getFallbackResponse(userMessage(i))
      /\ Len(Replies(i)) >= 1
           => Replies(i)[1].text = getFallbackResponse(userMessage(i))

\* C5 witness: not ready, and the fallback answer reached the user
C5_Witness ==
  /\ NotReady
  /\ \E i \in EventIds :
       /\ result[i] = "success"
       /\ Delivered(i)[1].text = getFallbackResponse(userMessage(i))

\* C6: when the NLU query succeeded with an absent, empty or blank
\* fulfillment text the resolved text and the primary reply are the
\* fallback answer; and no replyMessage call of any event carries an empty
\* text.
C6_BlankAnswerFallsBack ==
  \A i \in EventIds :
    /\ (Queried(i) /\ NluOutcome(i).ok /\ ~Usable(NluOutcome(i))) =>
         /\ botResponse[i] = getFallbackResponse(userMessage(i))
         /\ Len(Replies(i)) >= 1 =>
              Replies(i)[1].text = getFallbackResponse(userMessage(i))
    /\ \A k \in 1..Len(Replies(i)) : Replies(i)[k].text # <<>>

\* C6 witness: the NLU answered with a blank text and the user got the
\* fallback answer
C6_Witness ==
  \E i \in EventIds :
    /\ Queried(i)
    /\ NluOutcome(i).ok /\ NluOutcome(i).present
    /\ NluOutcome(i).text = <<" ">>
    /\ Len(Delivered(i)) = 1
    /\ Delivered(i)[1].text = getFallbackResponse(userMessage(i))

\* C7: when the NLU query failed, whatever the error class, the resolved
\* text and the primary reply are the fallback answer, the event goes on to
\* the wait and the primary reply, and the apology is sent only if that
\* primary reply failed.
C7_NluFailureFallsBack ==
  \A i \in EventIds :
    (Queried(i) /\ ~NluOutcome(i).ok) =>
      /\ NluOutcome(i).code \in NluErrorCodes
      /\ botResponse[i] = getFallbackResponse(userMessage(i))
      /\ pc[i] \in {"sleep", "reply", "apology", "done"}
      /\ Len(Replies(i)) >= 1 =>
           Replies(i)[1].text = getFallbackResponse(userMessage(i))
      /\ Len(Replies(i)) = 2 => Replies(i)[1].res = "fail"
      /\ result[i] = "error" => Replies(i)[1].res = "fail"
      /\ result[i] # "rejected"

\* C7 witness: the query failed with permission denied and the user got
\* the fallback answer
C7_Witness ==
  \E i \in EventIds :
    /\ Queried(i)
    /\ NluOutcome(i).code = "PERMISSION_DENIED"
    /\ result[i] = "success"
    /\ Delivered(i)[1].text = getFallbackResponse(userMessage(i))

\* the calls by which event i showed the indicator: the loading-start call
\* of server.js, the status push of the status-message revision
IndicatorCalls(i) == Calls(i, "loadingStart") \o Calls(i, "pushMessage")

IndicatorFailed(i) ==
  Len(IndicatorCalls(i)) = 1 /\ IndicatorCalls(i)[1].res = "fail"

\* the text the pipeline resolves for event i from the message, the
\* readiness and the NLU outcome alone
TextResolvedFor(i) ==
  IF Queried(i) /\ Usable(NluOutcome(i))
    THEN NluOutcome(i).text
    ELSE getFallbackResponse(userMessage(i))

\* two events had the same NLU outcome (or neither put a query)
SameNluOutcome(i, j) ==
  /\ Queried(i) <=> Queried(j)
  /\ Queried(i) => NluOutcome(i) = NluOutcome(j)

\* C8 as claimed: the text of the primary reply does not depend on the
\* indicator, and whenever the NLU returned a non-empty fulfillment text
\* the primary reply is that text.
C8_ReplyIsAnyNonEmptyAnswer ==
  \A i \in EventIds :
    Len(Replies(i)) >= 1 =>
      /\ \A j \in EventIds :
           ( /\ Len(Replies(j)) >= 1
             /\ userMessage(i) = userMessage(j)
             /\ SameNluOutcome(i, j) )
             => Replies(i)[1].text = Replies(j)[1].text
      /\ ( /\ Queried(i)
           /\ NluOutcome(i).ok /\ NluOutcome(i).present
           /\ NluOutcome(i).text # <<>> )
           => Replies(i)[1].text = NluOutcome(i).text

\* C8 amended: the text of the primary reply is determined by the message
\* text, the readiness and the NLU outcome alone, whatever the indicator
\* call did and whatever duration band was selected: it is the fulfillment
\* text itself when that text is not blank, and the fallback answer
\* otherwise; two events with the same message and the same NLU outcome get
\* the same text.
C8_ReplyIndependentOfIndicator ==
  \A i \in EventIds :
    Len(Replies(i)) >= 1 =>
      /\ Replies(i)[1].text = TextResolvedFor(i)
      /\ \A j \in EventIds :
           ( /\ Len(Replies(j)) >= 1
             /\ userMessage(i) = userMessage(j)
             /\ SameNluOutcome(i, j) )
             => Replies(i)[1].text = Replies(j)[1].text

\* C8 witness: an 11-unit message (band 4), the indicator call failed, the
\* NLU answered "ok" and the user got "ok"
C8_Witness ==
  \E i \in EventIds :
    /\ loadingSeconds(i) = 4
    /\ IndicatorFailed(i)
    /\ Queried(i) /\ NluOutcome(i).text = <<"o", "k">>
    /\ Len(Delivered(i)) = 1
    /\ Delivered(i)[1].text = <<"o", "k">>

\* the call or sleep that follows the indicator call of event i
AfterIndicator(i) == log[i][2]

\* C9: in either revision an event whose indicator call failed never stays
\* at the indicator and is never rejected or sent to the apology because
\* of it: server.js next sleeps the loading duration, the status-message
\* revision next puts the NLU query; the event then resolves its text and
\* sends the primary reply with that text, and only a failed reply send
\* ends it in error.
C9_IndicatorFailureSwallowed ==
  \A i \in EventIds :
    IndicatorFailed(i) =>
      /\ log[i][1] = IndicatorCalls(i)[1]
      /\ IF revision = "server"
           THEN /\ AfterIndicator(i).api = "sleep"
                /\ AfterIndicator(i).ms = loadingSeconds(i) * 1000
                /\ pc[i] \in {"fallbackSleep", "detectIntent", "sleep",
                              "reply", "apology", "done"}
                /\ (pc[i] \notin {"fallbackSleep", "detectIntent"}) =>
                     (NotReady \/ Queried(i))
           ELSE /\ AfterIndicator(i).api = "detectIntent"
                /\ pc[i] \in {"sendToDialogflow", "replyStatus", "done"}
                /\ pc[i] # "sendToDialogflow" => Queried(i)
      /\ pc[i] = "done" =>
           /\ Len(Replies(i)) >= 1
           /\ botResponse[i] # <<>>
      /\ Len(Replies(i)) >= 1 => Replies(i)[1].text = botResponse[i]
      /\ Len(Replies(i)) = 2 => Replies(i)[1].res = "fail"
      /\ result[i] \in {"error", "rejected"} => Replies(i)[1].res = "fail"

\* C9 witness: in the status-message revision the status push failed and
\* the user still got the answer
C9_Witness ==
  \E i \in EventIds :
    /\ revision = "status"
    /\ IndicatorFailed(i)
    /\ result[i] = "resolved"
    /\ Len(Delivered(i)) = 1

\* the milliseconds event i spent in its first n calls and sleeps
RECURSIVE SpentMs(_, _)
SpentMs(i, n) == IF n = 0 THEN 0 ELSE SpentMs(i, n - 1) + log[i][n].ms

\* the time from the dispatch of event i to the sending of its primary
\* reply: the time spent in everything before the first replyMessage call
ReplyDelay(i) ==
  LET sends == {n \in 1..Len(log[i]) : log[i][n].api = "replyMessage"}
      first == CHOOSE n \in sends : \A m \in sends : n <= m
  IN  SpentMs(i, first - 1)

NluMs(i) == IF Queried(i) THEN Calls(i, "detectIntent")[1].ms ELSE 0

\* the delay of an event whose indicator call succeeded: the NLU round
\* trip and the wait of server.js:187
DelayWhenIndicatorSucceeds ==
  \A i \in EventIds :
    (Len(Replies(i)) >= 1 /\ ~IndicatorFailed(i)) =>
      ReplyDelay(i) = NluMs(i) + TopUpMs(i)

\* C10 as claimed: when the indicator call failed the delay from the
\* dispatch of the event to its primary reply is what it is when the call
\* succeeded, for the same message and the same NLU response time.
C10_SameDelayWhenIndicatorFails ==
  \A i \in EventIds :
    (Len(Replies(i)) >= 1 /\ IndicatorFailed(i)) =>
      /\ ReplyDelay(i) = NluMs(i) + TopUpMs(i)
      /\ \A j \in EventIds :
           ( /\ Len(Replies(j)) >= 1
             /\ userMessage(i) = userMessage(j)
             /\ NluMs(i) = NluMs(j) )
             => ReplyDelay(i) = ReplyDelay(j)

-----------------------------------------------------------------------------
(* Properties of the pure helpers *)

\* the argument the helpers are applied to
HelperArgument == events[1].text

\* getLoadingDuration has returned
DurationReturned == phase = "helpers" /\ Len(log[1]) = 1

\* the value getLoadingDuration returned
DurationValue == log[1][1].secs

\* C11: getLoadingDuration returns 3 for a length up to 10, 4 for 11..30,
\* 5 for 31..100 and 6 above 100; the value is one of 3, 4, 5, 6, and no
\* text at least as long gets a smaller value, no shorter text a greater.
C11_DurationBands ==
  DurationReturned =>
    LET n == Len(HelperArgument) IN
    /\ log[1][1].text = HelperArgument
    /\ n <= 10 => DurationValue = 3
    /\ (11 <= n /\ n <= 30) => DurationValue = 4
    /\ (31 <= n /\ n <= 100) => DurationValue = 5
    /\ n > 100 => DurationValue = 6
    /\ DurationValue \in {3, 4, 5, 6}
    /\ \A t \in HelperTexts :
         /\ Len(t) >= n => getLoadingDuration(t) >= DurationValue
         /\ Len(t) <= n => getLoadingDuration(t) <= DurationValue

\* C11 witness: a text of 101 code units got 6
C11_Witness ==
  /\ DurationReturned
  /\ Len(HelperArgument) = 101
  /\ DurationValue = 6

\* getFallbackResponse has returned
FallbackReturned == phase = "helpers" /\ result[1] = "returned"

\* C12: getFallbackResponse can be applied to every text, the empty one
\* included, and the value it returns is never the empty string.
C12_FallbackTotalNonEmpty ==
  /\ (phase = "helpers" /\ result[1] = "pending")
       => ENABLED ApplyGetFallbackResponse
  /\ FallbackReturned => botResponse[1] # <<>>

\* C12 witness: the empty text got the default answer with the 3 s hint
C12_Witness ==
  /\ FallbackReturned
  /\ HelperArgument = <<>>
  /\ botResponse[1] = <<"L364a", "L364b", "3", "L364c">>

\* a text holds one of the words, letter case set aside
HoldsAny(text, words) ==
  \E w \in words : Includes(ToLowerCase(text), w)

GreetingWords == {KwSawasdee, KwWatdee, KwHello}

LoadingWords == {KwLoading, KwLoad}

\* C13 as claimed: a text that holds a greeting word in any letter case
\* gets the greeting answer, whatever else it holds.
C13_GreetingAlwaysWins ==
  (FallbackReturned /\ HoldsAny(HelperArgument, GreetingWords))
    => botResponse[1] = <<"L351">>

\* C13 amended: a text that holds a greeting word in any letter case gets
\* the greeting answer unless it also holds a loading word, and then it
\* gets the loading answer; the test and connection words and any other
\* content change nothing.
C13_GreetingWinsUnlessLoading ==
  (FallbackReturned /\ HoldsAny(HelperArgument, GreetingWords))
    => botResponse[1] =
         IF HoldsAny(HelperArgument, LoadingWords)
           THEN <<"L346">> ELSE <<"L351">>

\* C13 witness: "Test HElLO" got the greeting answer
C13_Witness ==
  /\ FallbackReturned
  /\ HelperArgument = <<"T", "e", "s", "t", " ", "H", "e", "l", "l", "O">>
  /\ botResponse[1] = <<"L351">>

\* C14 as claimed: the value getFallbackResponse returns for a text is the
\* value it returns for that text under either value of the readiness flag.
C14_FallbackIgnoresReadiness ==
  FallbackReturned =>
    \A ready \in BOOLEAN :
      botResponse[1] = FallbackResponse(HelperArgument, ready)

-----------------------------------------------------------------------------
(* Properties of a batch *)

\* the primary reply of event i failed and so did its apology
BothSendsFailed(i) ==
  /\ Len(Replies(i)) = 2
  /\ Replies(i)[1].res = "fail"
  /\ Replies(i)[2].res = "fail"

\* C15: in server.js an event whose primary reply failed attempts the
\* apology exactly once; when that fails too the event ends with the error
\* record and is not rejected.  Only a malformed event is rejected, so a
\* 500 answer is never due to a failed send: a delivery of well-formed
\* events is answered 200 with all its events counted.  Whatever the other
\* events of the batch did, an event that has not ended can take its next
\* step.
C15_FailedSendKeepsDelivery ==
  /\ \A i \in EventIds :
       /\ (Len(Replies(i)) >= 1 /\ Replies(i)[1].res = "fail") =>
            /\ Len(Replies(i)) = 2
            /\ Replies(i)[2].text = ApologyText
            /\ Replies(i)[2].res # "pending" =>
                 (pc[i] = "done" /\ result[i] = "error")
       /\ result[i] = "rejected" => ~WellFormed(events[i])
       /\ result[i] = "pending" => ENABLED EventStep(i)
  /\ response.status = 500 =>
       \E j \in EventIds : ~WellFormed(events[j]) /\ result[j] = "rejected"
  /\ (phase = "responded" /\ \A j \in EventIds : WellFormed(events[j])) =>
       /\ response.status = 200
       /\ Len(events) > 0 => response.processed = Len(events)

\* C15 witness: in a batch of two the first event failed both sends, the
\* second was replied to, and the delivery was answered 200 for two events
C15_Witness ==
  /\ Len(events) = 2
  /\ BothSendsFailed(1) /\ result[1] = "error"
  /\ result[2] = "success" /\ Len(Delivered(2)) = 1
  /\ response.status = 200 /\ response.processed = 2

\* every event of the delivery has been handed to handleEvent, and every
\* text-message event among them has issued its loading-start call
AllDispatched ==
  /\ DOMAIN pc = DOMAIN events
  /\ DOMAIN result = DOMAIN events
  /\ \A i \in EventIds :
       InPipeline(i) => (Len(log[i]) >= 1 /\ log[i][1].api = "loadingStart")

\* event i has reached one of its outcomes: skipped, success, handled
\* failure
HasOutcome(i) == pc[i] = "done" /\ result[i] \in {"null", "success", "error"}

\* C16 as claimed: all events of a delivery are dispatched together, and
\* once the delivery has been answered every event of it has settled.
C16_AnsweredOnlyWhenAllSettled ==
  /\ phase \in {"handling", "responded"} => AllDispatched
  /\ phase = "responded" => \A i \in EventIds : Settled(i)

\* C16 amended: all events of a delivery are dispatched together.  When
\* all of them are well-formed the delivery is answered only after each has
\* reached its outcome, with 200 and processed = the number of events.  A
\* delivery answered while one of its events is still in flight holds a
\* malformed event and was answered 500.
C16_AnsweredWhenAllSettledIfWellFormed ==
  /\ phase \in {"handling", "responded"} => AllDispatched
  /\ (phase = "responded" /\ \A j \in EventIds : WellFormed(events[j])) =>
       /\ \A i \in EventIds : HasOutcome(i)
       /\ response.status = 200
       /\ Len(events) > 0 =>
            (response.body = "processed" /\ response.processed = Len(events))
  /\ (phase = "responded" /\ \E i \in EventIds : ~Settled(i)) =>
       /\ response.status = 500
       /\ \E j \in EventIds : ~WellFormed(events[j]) /\ result[j] = "rejected"

\* C16 witness: a delivery of two text events was answered 200 for two
\* events after both had been replied to
C16_Witness ==
  /\ Len(events) = 2
  /\ \A i \in EventIds : InPipeline(i) /\ result[i] = "success"
  /\ phase = "responded"
  /\ response = [status |-> 200, body |-> "processed", processed |-> 2]

\* C17: after start-up no step changes dialogflowReady or sessionClient
\* (they are written by initializeDialogflow alone); and in every state of
\* every interleaving of a batch, the resolved text and the primary reply
\* of an event are what its own message, its own NLU outcome and the
\* readiness flag give, so that two events of the batch with the same
\* message and the same NLU outcome have the same reply text.
C17_HandlersShareOnlyReadiness ==
  /\ [][phase # "start" => UNCHANGED <<dialogflowReady, sessionClient>>]_vars
  /\ [](\A i \in EventIds :
          /\ botResponse[i] \in {<<>>, TextResolvedFor(i)}
          /\ Len(Replies(i)) >= 1 =>
               /\ botResponse[i] = TextResolvedFor(i)
               /\ Replies(i)[1].text = botResponse[i]
               /\ \A j \in EventIds \ {i} :
                    ( /\ Len(Replies(j)) >= 1
                      /\ events[i].text = events[j].text
                      /\ SameNluOutcome(i, j) )
                      => Replies(j)[1].text = Replies(i)[1].text)

\* C17 witness: in a ready process both events of a batch were replied to,
\* the second ("test") with the NLU answer "ok", the first ("hi"), whose
\* query failed, with the fallback answer for "hi"
C17_Witness ==
  /\ Len(events) = 2
  /\ dialogflowReady
  /\ events[1].text = <<"h", "i">>
  /\ events[2].text = <<"t", "e", "s", "t">>
  /\ Len(Delivered(1)) = 1 /\ Len(Delivered(2)) = 1
  /\ Delivered(2)[1].text = <<"o", "k">>
  /\ Queried(1) /\ ~NluOutcome(1).ok
  /\ Delivered(1)[1].text = getFallbackResponse(<<"h", "i">>)

\* the place of each await of handleEvent in the order of the pipeline
StepRank ==
  [loadingStart |-> 1, fallbackSleep |-> 2, detectIntent |-> 3, sleep |-> 4,
   reply |-> 5, apology |-> 6, done |-> 7]

\* the positions in the log of event i of the calls of one API
Positions(i, api) == {n \in 1..Len(log[i]) : log[i][n].api = api}

\* every call of event i before position n has returned
ReturnedBefore(i, n) == \A m \in 1..(n - 1) : log[i][m].res # "pending"

\* C18: a text-message event issues the loading-start call once, as its
\* first call; it issues the NLU query at most once, after the loading-start
\* call has returned and, when that call failed, after the fallback sleep
\* of the loading duration has ended; it sends a reply only after the text
\* has been resolved, which for a ready gateway means after the query has
\* returned; and no step takes an event back to an earlier await or leaves
\* it at the same one.
C18_PipelineOrder ==
  /\ [](\A i \in EventIds : InPipeline(i) =>
          /\ Positions(i, "loadingStart") = {1}
          /\ Cardinality(Positions(i, "detectIntent")) <= 1
          /\ \A q \in Positions(i, "detectIntent") :
               /\ ReturnedBefore(i, q)
               /\ IF log[i][1].res = "ok"
                    THEN q = 2
                    ELSE /\ q = 3
                         /\ log[i][2].api = "sleep"
                         /\ log[i][2].ms = loadingSeconds(i) * 1000
          /\ \A r \in Positions(i, "replyMessage") :
               /\ ReturnedBefore(i, r)
               /\ botResponse[i] = TextResolvedFor(i)
               /\ dialogflowReady =>
                    \E q \in Positions(i, "detectIntent") : q < r
               /\ log[i][r - 1].api \in {"sleep", "replyMessage"})
  /\ [][\A i \in EventIds :
          /\ StepRank[pc'[i]] >= StepRank[pc[i]]
          /\ (pc'[i] = pc[i]) => (log'[i] = log[i])]_vars

\* C18 witness: a ready event whose loading-start call failed went through
\* fallback sleep, query, wait and reply, in that order
C18_Witness ==
  \E i \in EventIds :
    /\ result[i] = "success"
    /\ [n \in 1..Len(log[i]) |-> log[i][n].api] =
         <<"loadingStart", "sleep", "detectIntent", "sleep", "replyMessage">>

\* C19: when every awaited call and sleep returns or fails in the end,
\* every event that has been dispatched and has not ended does end, with
\* success or error (an event that is skipped ends at its dispatch), and
\* every delivery being handled is answered.
C19_EveryEventEnds ==
  /\ \A i \in 1..MaxFairBatch :
       (i \in EventIds /\ result[i] = "pending")
         ~> (i \in EventIds /\ pc[i] = "done"
               /\ result[i] \in {"success", "error"})
  /\ (phase = "handling") ~> (phase = "responded")
  /\ [](\A i \in EventIds :
          (WellFormed(events[i]) /\ ~Qualifies(events[i])) => HasOutcome(i))

\* C19 witness: an event that met a failure at every call (loading-start,
\* query, reply, apology) has ended, and so has the event dispatched with
\* it; the delivery has been answered
C19_Witness ==
  /\ Len(events) = 2
  /\ \A i \in EventIds : InPipeline(i) /\ pc[i] = "done"
  /\ IndicatorFailed(1)
  /\ Queried(1) /\ ~NluOutcome(1).ok
  /\ BothSendsFailed(1)
  /\ phase = "responded"

-----------------------------------------------------------------------------
(* The wait before the reply *)

\* the position in the log of event i at which its indicator step ends: the
\* loading-start call, or the fallback sleep after a failed one
IndicatorEnd(i) == IF IndicatorFailed(i) THEN 2 ELSE 1

\* the time from the end of the indicator step of event i to the sending
\* of its primary reply
DelayAfterIndicator(i) == ReplyDelay(i) - SpentMs(i, IndicatorEnd(i))

\* C20 as claimed: the time from the end of the indicator step to the
\* sending of the primary reply is the greater of the NLU processing time
\* and the loading duration less one second.
C20_WaitOnlyTopsUp ==
  \A i \in EventIds :
    Len(Replies(i)) >= 1 =>
      DelayAfterIndicator(i) = Max(NluMs(i), loadingSeconds(i) * 1000 - 1000)

\* what the code does: the wait of line 187 is added to the NLU processing
\* time in full
WaitAddedInFull ==
  \A i \in EventIds :
    Len(Replies(i)) >= 1 =>
      DelayAfterIndicator(i) = NluMs(i) + (loadingSeconds(i) * 1000 - 1000)

-----------------------------------------------------------------------------
(* The outcome of handleEvent *)

\* C21: in server.js the handler of a well-formed text-message event is
\* never rejected; it ends with success exactly when its primary reply send
\* succeeded; when the primary send failed it ends, once the apology send
\* has returned, with error, the same whether the apology got through or
\* not.
C21_OutcomeFollowsPrimarySend ==
  revision = "server" =>
    \A i \in EventIds : InPipeline(i) =>
      /\ result[i] \in {"pending", "success", "error"}
      /\ result[i] = "success"
           <=> (Len(Replies(i)) >= 1 /\ Replies(i)[1].res = "ok")
      /\ result[i] = "error"
           <=> /\ Len(Replies(i)) = 2
               /\ Replies(i)[1].res = "fail"
               /\ Replies(i)[2].res \in {"ok", "fail"}
      /\ (Len(Replies(i)) >= 1 /\ Replies(i)[1].res = "fail")
           => result[i] \in {"pending", "error"}

\* C21 witness: the primary send failed, the apology reached the user, and
\* the event ended with error
C21_Witness ==
  \E i \in EventIds :
    /\ revision = "server"
    /\ InPipeline(i)
    /\ result[i] = "error"
    /\ Replies(i)[1].res = "fail"
    /\ Replies(i)[2].res = "ok"
    /\ Delivered(i) = <<Replies(i)[2]>>

-----------------------------------------------------------------------------
(* The outcome of handleEvent in the status-message revision *)

\* the text of the apology reply of part_000:133
StatusApologyText == <<"L133">>

\* C22 as claimed: in the status-message revision a failed primary reply
\* is followed by the apology reply, and the handler of a well-formed text
\* event is rejected, and the delivery answered 500, when both have failed
\* and only then.
C22_RejectsWhenBothSendsFail ==
  revision = "status" =>
    \A i \in EventIds : InPipeline(i) =>
      /\ (Len(Replies(i)) >= 1 /\ Replies(i)[1].res = "fail") =>
           /\ Len(Replies(i)) = 2
           /\ Replies(i)[2].text = StatusApologyText
      /\ result[i] = "rejected" <=> BothSendsFailed(i)
      /\ BothSendsFailed(i) =>
           (phase = "responded" => response.status = 500)

\* what the code does: the handler sends one reply and no apology, and is
\* rejected as soon as that reply has failed; the delivery is then
\* answered 500, whatever the other events of the batch did or are doing
StatusRejectsOnPrimaryFailure ==
  revision = "status" =>
    /\ \A i \in EventIds : InPipeline(i) =>
         /\ Len(Replies(i)) <= 1
         /\ \A k \in 1..Len(Replies(i)) :
              Replies(i)[k].text # StatusApologyText
         /\ result[i] = "rejected"
              <=> (Len(Replies(i)) = 1 /\ Replies(i)[1].res = "fail")
    /\ (phase = "responded" /\ \E i \in EventIds : result[i] = "rejected")
         => response.status = 500

\* a delivery of two text events answered 500 after the failed reply of
\* the first, while the second is still at its status push
StatusAnsweredWhileInFlight ==
  /\ revision = "status"
  /\ Len(events) = 2
  /\ InPipeline(1) /\ InPipeline(2)
  /\ result[1] = "rejected"
  /\ pc[2] = "push"
  /\ phase = "responded" /\ response.status = 500

====
